---- MODULE Spec2Model ----
(***************************************************************************)
(* Model of johnny/webapp/app.py: the analytics functions of the web       *)
(* application (GetNotional, risk, stats, RatioDistribution,               *)
(* RenderHistoryText, RenderHistorySVG) and the lock-guarded Initialize.   *)
(*                                                                         *)
(* Decimal values are integers in a fixed unit: prices and strikes of the  *)
(* notional calculator are in thousandths, quantized notionals in cents.   *)
(***************************************************************************)
EXTENDS Integers, Sequences, FiniteSets, TLC

VARIABLES
    rec, notional,                          \* GetNotional: argument, outcome
    positions, riskOut,                     \* risk(): STATE.positions, outcome
    chains, chain_ids, statsOut,            \* stats(): STATE.chains, request arg, outcome
    txns, historyOut,                       \* RenderHistoryText: argument, outcome
    svgTxns, svgOut,                        \* RenderHistorySVG: argument, outcome
    num, denom, threshold, ratioOut,        \* RatioDistribution: arguments, outcome
    G_STATE, lock,                          \* the global STATE, _STATE_LOCK
    pc, ret, calls,                         \* callers of Initialize
    builds, late, acquired                  \* history of the calls

vars == <<rec, notional, positions, riskOut, chains, chain_ids, statsOut,
          txns, historyOut, svgTxns, svgOut, num, denom, threshold, ratioOut,
          G_STATE, lock, pc, ret, calls, builds, late, acquired>>

varsNotional == <<rec, notional>>
varsRisk     == <<positions, riskOut>>
varsStats    == <<chains, chain_ids, statsOut>>
varsHistory  == <<txns, historyOut>>
varsSVG      == <<svgTxns, svgOut>>
varsRatio    == <<num, denom, threshold, ratioOut>>
varsInitialize == <<G_STATE, lock, pc, ret, calls, builds, late, acquired>>
varsAnalytics == <<varsNotional, varsRisk, varsStats, varsHistory, varsSVG, varsRatio>>

\* A nullable value is a sequence: None is the empty one, a value v is <<v>>.
\* (A str is the sequence of its characters, and no str of the model is empty.)
None == <<>>
Some(v) == <<v>>
Val(x) == x[1]

\* The outcome of a call that has not been made yet.
Pending == [status |-> "pending"]

-----------------------------------------------------------------------------
(* Bounds of the model.                                                    *)

MaxQty == 2          \* |quantity| of a row
MaxMilli == 15       \* largest price or strike, in thousandths
MaxPositions == 2    \* rows of the position table
MaxChains == 2       \* rows of the chain table
MaxTxns == 3         \* rows of a chain's transaction table
MaxSvgTxns == 3      \* rows given to RenderHistorySVG
MaxLen == 3          \* length of num and denom
NumThreads == 2      \* concurrent callers of Initialize
MaxCalls == 2        \* calls of Initialize per caller

-----------------------------------------------------------------------------
(* Helpers.                                                                *)

Abs(x) == IF x < 0 THEN -x ELSE x

\* All sequences over S of length lo..hi.
SeqsOf(S, lo, hi) == UNION {[1..n -> S] : n \in lo..hi}

RECURSIVE SumSeq(_)
SumSeq(s) == IF s = <<>> THEN 0 ELSE Head(s) + SumSeq(Tail(s))

\* n/d rounded to an integer with ROUND_HALF_EVEN (the default rounding of
\* the decimal context), for d > 0.
RoundHalfEvenDiv(n, d) ==
    LET q == n \div d
        r == n % d
    IN  IF 2 * r < d THEN q
        ELSE IF 2 * r > d THEN q + 1
        ELSE IF q % 2 = 0 THEN q ELSE q + 1

-----------------------------------------------------------------------------
(* GetNotional (app.py 367-378).                                           *)

\* str values of putcall, as character sequences.
PUT  == <<"P", "U", "T">>
CALL == <<"C", "A", "L", "L">>

OptionTypes == {"EquityOption", "FutureOption"}
LinearTypes == {"Equity", "Future"}
ValidTypes  == OptionTypes \cup LinearTypes
\* Instrument types instrument.Expand is not expected to produce.
OtherTypes  == {"Crypto", "Bond"}

\* Expanded rows: options carry a putcall and a strike, the others None.
Records ==
    [instype : OptionTypes, putcall : {PUT, CALL}, quantity : -MaxQty..MaxQty,
     multiplier : {1, 100}, strike : {Some(m) : m \in 0..MaxMilli}, price : 0..MaxMilli]
    \cup
    [instype : LinearTypes \cup OtherTypes, putcall : {None}, quantity : -MaxQty..MaxQty,
     multiplier : {1, 100}, strike : {None}, price : 0..MaxMilli]

\* Quantization with ties rounded up instead of to the even cent.
QuantizeHalfUp(milli) == (milli + 5) \div 10

\* Decimal.quantize(Q), Q = Decimal('0.01'): thousandths to cents.
Quantize(milli) == RoundHalfEvenDiv(milli, 10)

\* GetNotional without its final else branch: an unknown type counts as zero.
GetNotionalDefault(r) ==
    IF r.instype \in OptionTypes
    THEN [status |-> "ok",
          value |-> IF r.putcall[1] = "P"
                    THEN Quantize(r.quantity * r.multiplier * Val(r.strike))
                    ELSE Quantize(0)]
    ELSE IF r.instype \in LinearTypes
    THEN [status |-> "ok", value |-> Quantize(r.quantity * r.multiplier * r.price)]
    ELSE [status |-> "ok", value |-> Quantize(0)]

\* The outcome of GetNotional(rec): the quantized notional in cents, or the
\* ValueError carrying the instrument type.
GetNotional(r) ==
    IF r.instype \in OptionTypes
    THEN [status |-> "ok",
          value |-> IF r.putcall[1] = "P"
                    THEN Quantize(r.quantity * r.multiplier * Val(r.strike))
                    ELSE Quantize(0)]
    ELSE IF r.instype \in LinearTypes
    THEN [status |-> "ok", value |-> Quantize(r.quantity * r.multiplier * r.price)]
    ELSE [status |-> "ValueError", instype |-> r.instype]

InitNotionalVars == rec \in Records /\ notional = Pending
IdleNotionalVars == rec = None /\ notional = Pending

CallGetNotional ==
    /\ notional = Pending
    /\ notional' = GetNotional(rec)
    /\ UNCHANGED rec

-----------------------------------------------------------------------------
(* risk() (app.py 335-363).                                                *)

\* Rows of instrument.Expand(STATE.positions, 'symbol'); cost is nullable.
PositionRows ==
    {[underlying |-> u, expiration |-> IF i \in OptionTypes THEN Some("2021-06-18") ELSE None,
      account |-> a, cost |-> c, net_liq |-> 3, pnl_open |-> -1,
      instype |-> i, putcall |-> IF i \in OptionTypes THEN PUT ELSE None,
      quantity |-> q, multiplier |-> 100,
      strike |-> IF i \in OptionTypes THEN Some(15) ELSE None, price |-> 5] :
        u \in {"SPY"}, a \in {"x1", "x2"}, c \in {None, Some(7)},
        i \in {"Equity", "EquityOption", "Crypto", "Bond"}, q \in {-1, 2}}

\* net_liq = Decimal(1e6), in dollars.
NetLiq == 1000000

\* .replace('cost', None, ZERO)
ReplaceCost(row) == [row EXCEPT !.cost = IF row.cost = None THEN Some(0) ELSE row.cost]

\* The outcomes of GetNotional on the rows, in table order.
Notionals(rows) == [k \in 1..Len(rows) |-> GetNotional(rows[k])]

\* The subsequence of the rows with the given (underlying, expiration).
RECURSIVE SelectKey(_, _)
SelectKey(rows, key) ==
    IF rows = <<>> THEN <<>>
    ELSE IF <<Head(rows).underlying, Head(rows).expiration>> = key
         THEN <<Head(rows)>> \o SelectKey(Tail(rows), key)
         ELSE SelectKey(Tail(rows), key)

\* The aggregation agg of risk() over a non-empty sequence of rows that
\* carry their notional.
Aggregate(rows) ==
    [account  |-> rows[1].account,
     cost     |-> SumSeq([k \in 1..Len(rows) |-> rows[k].cost]),
     net_liq  |-> SumSeq([k \in 1..Len(rows) |-> rows[k].net_liq]),
     pnl_open |-> SumSeq([k \in 1..Len(rows) |-> rows[k].pnl_open]),
     notional |-> SumSeq([k \in 1..Len(rows) |-> rows[k].notional])]

\* The outcome of risk() on the position table: the ValueError of the first
\* row GetNotional rejects, or the risk table, the notional and the leverage
\* handed to the template.
Risk(table) ==
    LET ns  == Notionals(table)
        bad == {k \in 1..Len(table) : ns[k].status # "ok"}
    IN  IF bad # {}
        THEN LET k == CHOOSE b \in bad : \A c \in bad : b <= c
             IN  [status |-> "ValueError", instype |-> ns[k].instype]
        ELSE LET rows == [k \in 1..Len(table) |->
                            [underlying |-> table[k].underlying,
                             expiration |-> table[k].expiration,
                             account    |-> table[k].account,
                             cost       |-> Val(ReplaceCost(table[k]).cost),
                             net_liq    |-> table[k].net_liq,
                             pnl_open   |-> table[k].pnl_open,
                             notional   |-> ns[k].value]]
                 keys == {<<rows[k].underlying, rows[k].expiration>> : k \in 1..Len(rows)}
                 total == Abs(Aggregate(rows).notional)
             IN  [status   |-> "ok",
                  table    |-> [key \in keys |-> Aggregate(SelectKey(rows, key))],
                  notional |-> RoundHalfEvenDiv(total, 100),
                  net_liq  |-> NetLiq,
                  leverage |-> RoundHalfEvenDiv(total, NetLiq)]

InitRiskVars == positions \in SeqsOf(PositionRows, 1, MaxPositions) /\ riskOut = Pending
IdleRiskVars == positions = <<>> /\ riskOut = Pending

\* A request to /risk.
risk ==
    /\ riskOut = Pending
    /\ riskOut' = Risk(positions)
    /\ UNCHANGED positions

-----------------------------------------------------------------------------
(* stats() (app.py 381-472) and FilterChains (app.py 112-118).             *)

\* Rows of STATE.chains; chain_pnl and init are Decimals, in dollars.
ChainRows == [chain_id : {"c1", "c2"}, chain_pnl : {-3, 0, 2}, init : {-1, 0, 2}]

\* The request's chain_ids, split on commas; None when the argument is absent.
ChainIdsArgs == {None, <<"c1">>, <<"c2">>, <<"c1", "c2">>, <<"c9">>}

Range(s) == {s[k] : k \in 1..Len(s)}

FilterChains(table, selected_chain_ids) ==
    IF selected_chain_ids # None
    THEN LET In(row) == row.chain_id \in Range(selected_chain_ids)
         IN  SelectSeq(table, In)
    ELSE table

\* A ratio of Decimals as a fraction with a positive denominator.
Frac(n, d) == IF d < 0 THEN [n |-> -n, d |-> -d] ELSE [n |-> n, d |-> d]

\* PctCr: chain_pnl / init, and 0 when init is 0.
PctCr(row) == IF row.init = 0 THEN Frac(0, 1) ELSE Frac(row.chain_pnl, row.init)

RECURSIVE SumFrac(_)
SumFrac(s) ==
    IF s = <<>> THEN Frac(0, 1)
    ELSE LET t == SumFrac(Tail(s))
         IN  Frac(Head(s).n * t.d + t.n * Head(s).d, Head(s).d * t.d)

RECURSIVE MaxSeq(_)
MaxSeq(s) ==
    IF Len(s) = 1 THEN s[1]
    ELSE LET m == MaxSeq(Tail(s)) IN IF Head(s) > m THEN Head(s) ELSE m

RECURSIVE MinSeq(_)
MinSeq(s) ==
    IF Len(s) = 1 THEN s[1]
    ELSE LET m == MinSeq(Tail(s)) IN IF Head(s) < m THEN Head(s) ELSE m

\* np.array(table.values(...)) for the columns stats() reads.
PnlColumn(table) == [k \in 1..Len(table) |-> table[k].chain_pnl]
InitColumn(table) == [k \in 1..Len(table) |-> table[k].init]
PctCrColumn(table) == [k \in 1..Len(table) |-> PctCr(table[k])]

\* Quantize(np.mean(a)): the mean in whole dollars.
QuantizeMean(a) == RoundHalfEvenDiv(SumSeq(a), Len(a))

\* '{:.1%}'.format(np.mean(a)) of a column of fractions: tenths of a percent.
PercentMean(a) ==
    LET t == SumFrac(a) IN RoundHalfEvenDiv(1000 * t.n, t.d * Len(a))

\* The outcome of stats(): the rows of stats_table (currency cells in whole
\* dollars, percentage cells in tenths of a percent), or the fault raised
\* while the rows are built.
Stats(table, selected_chain_ids) ==
    LET filtered == FilterChains(table, selected_chain_ids)
        IsWin(row) == row.chain_pnl > 0
        IsLos(row) == ~(row.chain_pnl > 0)
        win == SelectSeq(filtered, IsWin)
        los == SelectSeq(filtered, IsLos)
        pnl == PnlColumn(filtered)
        pnl_win == PnlColumn(win)
        pnl_los == PnlColumn(los)
        init_cr == InitColumn(filtered)
        pct_cr == PctCrColumn(filtered)
        pct_cr_win == PctCrColumn(win)
        pct_cr_los == PctCrColumn(los)
    IN  IF Len(pnl) = 0
        THEN \* len(pnl_win)/len(pnl), the first division of the rows
             [status |-> "ZeroDivisionError"]
        ELSE [status |-> "ok",
              pnl |-> IF Len(pnl) # 0 THEN SumSeq(pnl) ELSE 0,
              wins |-> Len(pnl_win),
              total |-> Len(pnl),
              win_pct |-> RoundHalfEvenDiv(1000 * Len(pnl_win), Len(pnl)),
              avg_init |-> QuantizeMean(init_cr),
              avg_pnl |-> IF Len(pnl) # 0 THEN QuantizeMean(pnl) ELSE 0,
              avg_pct |-> IF Len(pct_cr) # 0 THEN PercentMean(pct_cr) ELSE 0,
              avg_pnl_win |-> IF Len(pnl_win) # 0 THEN QuantizeMean(pnl_win) ELSE 0,
              avg_pct_win |-> IF Len(pct_cr_win) # 0 THEN PercentMean(pct_cr_win) ELSE 0,
              avg_pnl_los |-> IF Len(pnl_los) # 0 THEN QuantizeMean(pnl_los) ELSE 0,
              avg_pct_los |-> IF Len(pct_cr_los) # 0 THEN PercentMean(pct_cr_los) ELSE 0,
              max_win |-> IF Len(pnl_win) # 0 THEN MaxSeq(pnl_win) ELSE 0,
              max_loss |-> IF Len(pnl_los) # 0 THEN MinSeq(pnl_los) ELSE 0]

InitStatsVars ==
    /\ chains \in SeqsOf(ChainRows, 0, MaxChains)
    /\ chain_ids \in ChainIdsArgs
    /\ statsOut = Pending
IdleStatsVars == chains = <<>> /\ chain_ids = None /\ statsOut = Pending

\* A request to /stats/.
stats ==
    /\ statsOut = Pending
    /\ statsOut' = Stats(chains, chain_ids)
    /\ UNCHANGED <<chains, chain_ids>>

-----------------------------------------------------------------------------
(* RenderHistoryText (app.py 198-233): the aggregation by (datetime,       *)
(* order_id) and the accr column. The rendered static/puts/calls texts are *)
(* not part of the model.                                                  *)

\* Transaction rows of one chain. datetime and order_id are numbered in
\* their sort order; cost is a Decimal.
TxnRows == [datetime : 1..2, order_id : 1..2, cost : {-2, 0, 3}]

KeyOf(row) == <<row.datetime, row.order_id>>

\* The order petl sorts the (datetime, order_id) keys in.
KeyLeq(a, b) == a[1] < b[1] \/ (a[1] = b[1] /\ a[2] <= b[2])

RECURSIVE SortKeys(_)
SortKeys(K) ==
    IF K = {} THEN <<>>
    ELSE LET m == CHOOSE k \in K : \A j \in K : KeyLeq(k, j)
         IN  <<m>> \o SortKeys(K \ {m})

\* The costs of the rows with the given key, in table order.
RECURSIVE CostsOf(_, _)
CostsOf(rows, key) ==
    IF rows = <<>> THEN <<>>
    ELSE IF KeyOf(Head(rows)) = key
         THEN <<Head(rows).cost>> \o CostsOf(Tail(rows), key)
         ELSE CostsOf(Tail(rows), key)

\* txns.aggregate(['datetime', 'order_id'], agg): one row per key, in
\* ascending key order, with 'cost': ('cost', sum).
AggregateTxns(rows) ==
    LET keys == SortKeys({KeyOf(rows[k]) : k \in 1..Len(rows)})
    IN  [g \in 1..Len(keys) |->
            [datetime |-> keys[g][1], order_id |-> keys[g][2],
             cost |-> SumSeq(CostsOf(rows, keys[g]))]]

\* Accrue that forgets the previous row.
AccrueNoCarry(prv, cur) == cur.cost

\* Accrue(prv, cur, nxt); prv is None for the first row.
Accrue(prv, cur) ==
    LET last == IF prv # None THEN Val(prv).accr ELSE 0
    IN  last + cur.cost

\* .addfieldusingcontext('accr', Accrue): prv is the previous output row.
RECURSIVE AddAccr(_, _)
AddAccr(groups, prv) ==
    IF groups = <<>> THEN <<>>
    ELSE LET cur == Head(groups)
             row == [datetime |-> cur.datetime, order_id |-> cur.order_id,
                     cost |-> cur.cost, accr |-> Accrue(prv, cur)]
         IN  <<row>> \o AddAccr(Tail(groups), Some(row))

\* The outcomes of RenderHistoryText: the rendered rows. On a table without
\* rows addfieldusingcontext has no current row: depending on the petl
\* version it yields no rows or fails on its next().
RenderHistoryTextOutcomes(rows) ==
    IF rows = <<>>
    THEN {[status |-> "ok", rendered_rows |-> <<>>], [status |-> "RuntimeError"]}
    ELSE {[status |-> "ok", rendered_rows |-> AddAccr(AggregateTxns(rows), None)]}

InitHistoryVars == txns \in SeqsOf(TxnRows, 0, MaxTxns) /\ historyOut = Pending
IdleHistoryVars == txns = <<>> /\ historyOut = Pending

RenderHistoryText ==
    /\ historyOut = Pending
    /\ historyOut' \in RenderHistoryTextOutcomes(txns)
    /\ UNCHANGED txns

-----------------------------------------------------------------------------
(* RenderHistorySVG (app.py 235-286).                                      *)

\* Transaction rows: a datetime and a nullable strike. The description of
\* row k of the table is k.
SvgRows == [datetime : 1..2, strike : {None, Some(100), Some(101), Some(103)}]

WithDescription(rows) ==
    [k \in 1..Len(rows) |->
        [datetime |-> rows[k].datetime, description |-> k, strike |-> rows[k].strike]]

\* petl's sort order of nullable values: None comes first.
StrikeLeq(a, b) == a = None \/ (b # None /\ Val(a) <= Val(b))

DatetimeStrikeLeq(a, b) ==
    a.datetime < b.datetime \/ (a.datetime = b.datetime /\ StrikeLeq(a.strike, b.strike))

\* Insertion of r behind the rows that do not sort after it (a stable sort).
RECURSIVE InsertByDatetimeStrike(_, _)
InsertByDatetimeStrike(r, sorted) ==
    IF sorted = <<>> THEN <<r>>
    ELSE IF DatetimeStrikeLeq(Head(sorted), r)
         THEN <<Head(sorted)>> \o InsertByDatetimeStrike(r, Tail(sorted))
         ELSE <<r>> \o sorted

\* .sort(['datetime', 'strike'])
RECURSIVE SortByDatetimeStrike(_)
SortByDatetimeStrike(rows) ==
    IF rows = <<>> THEN <<>>
    ELSE InsertByDatetimeStrike(rows[Len(rows)],
                                SortByDatetimeStrike(SubSeq(rows, 1, Len(rows) - 1)))

RECURSIVE InsertByDatetime(_, _)
InsertByDatetime(r, sorted) ==
    IF sorted = <<>> THEN <<r>>
    ELSE IF Head(sorted).datetime <= r.datetime
         THEN <<Head(sorted)>> \o InsertByDatetime(r, Tail(sorted))
         ELSE <<r>> \o sorted

\* .sort('datetime')
RECURSIVE SortByDatetime(_)
SortByDatetime(rows) ==
    IF rows = <<>> THEN <<>>
    ELSE InsertByDatetime(rows[Len(rows)], SortByDatetime(SubSeq(rows, 1, Len(rows) - 1)))

\* sorted(strikes)
RECURSIVE SortedStrikes(_)
SortedStrikes(S) ==
    IF S = {} THEN <<>>
    ELSE LET m == CHOOSE x \in S : \A y \in S : x <= y
         IN  <<m>> \o SortedStrikes(S \ {m})

SetMin(S) == CHOOSE x \in S : \A y \in S : x <= y
SetMax(S) == CHOOSE x \in S : \A y \in S : x >= y

\* int((strike - min_strike) / diff_strike * width), width = 1000.
XPos(strike, min_strike, diff_strike) == ((strike - min_strike) * 1000) \div diff_strike

\* The band step applied on every row but the first.
BandStepAlways(y, prev_time, datetime) ==
    IF prev_time # None THEN y + 30 ELSE y

\* Lines 276-277: y moves down a band when the datetime changes.
BandStep(y, prev_time, datetime) ==
    IF prev_time # None /\ Val(prev_time) # datetime THEN y + 30 ELSE y

\* The loop of lines 275-283 over the remaining rows: the labels printed,
\* and whether the loop ended in the TypeError of r.strike - min_strike
\* with r.strike None.
RECURSIVE LabelLoop(_, _, _, _, _)
LabelLoop(rows, y, prev_time, min_strike, diff_strike) ==
    IF rows = <<>> THEN [labels |-> <<>>, fault |-> FALSE]
    ELSE LET r  == Head(rows)
             y1 == BandStep(y, prev_time, r.datetime)
         IN  IF r.strike = None
             THEN [labels |-> <<>>, fault |-> TRUE]
             ELSE LET rest == LabelLoop(Tail(rows), y1 + 12, Some(r.datetime),
                                        min_strike, diff_strike)
                  IN  [labels |-> <<[x |-> XPos(Val(r.strike), min_strike, diff_strike),
                                     y |-> y1, description |-> r.description]>>
                                  \o rest.labels,
                       fault |-> rest.fault]

\* The outcome of RenderHistorySVG: the fixed text, the drawing (its scale
\* ticks and its labels), or the TypeError with what was printed before it.
RenderHistorySVGOutcome(table) ==
    LET clean_txns == SortByDatetimeStrike(WithDescription(table))
        strikes == {Val(clean_txns[k].strike) :
                        k \in {j \in 1..Len(clean_txns) : clean_txns[j].strike # None}}
    IN  IF strikes = {}
        THEN [status |-> "ok", text |-> "No transactions."]
        ELSE LET min_strike == SetMin(strikes)
                 max_strike == SetMax(strikes)
                 diff_strike == IF max_strike - min_strike = 0 THEN 1
                                ELSE max_strike - min_strike
                 sorted == SortedStrikes(strikes)
                 ticks == [k \in 1..Len(sorted) |->
                             [x |-> XPos(sorted[k], min_strike, diff_strike),
                              strike |-> sorted[k]]]
                 loop == LabelLoop(SortByDatetime(clean_txns), 20, None,
                                   min_strike, diff_strike)
             IN  [status |-> IF loop.fault THEN "TypeError" ELSE "ok",
                  text |-> "svg", ticks |-> ticks, labels |-> loop.labels]

InitSVGVars == svgTxns \in SeqsOf(SvgRows, 0, MaxSvgTxns) /\ svgOut = Pending
IdleSVGVars == svgTxns = <<>> /\ svgOut = Pending

RenderHistorySVG ==
    /\ svgOut = Pending
    /\ svgOut' = RenderHistorySVGOutcome(svgTxns)
    /\ UNCHANGED svgTxns

-----------------------------------------------------------------------------
(* RatioDistribution (app.py 122-128). The floats num, denom and threshold *)
(* are integers in units of 1e-6; a ratio is an exact fraction.            *)

\* 1e-6, in units of 1e-6.
Eps == 1

RatioValues == [num : {-3, -2, 0, 2}, denom : {-2, 0, 1, 2}]
Thresholds == {2, 3}

RECURSIVE Gcd(_, _)
Gcd(a, b) == IF b = 0 THEN a ELSE Gcd(b, a % b)

\* num/denom * 100 as a fraction in lowest terms, for denom > 0.
Ratio(n, d) ==
    LET g == Gcd(Abs(100 * n), Abs(d))
    IN  [n |-> (100 * n) \div g, d |-> d \div g]

\* a[mask]: boolean indexing of an array.
RECURSIVE Masked(_, _)
Masked(a, mask) ==
    IF a = <<>> THEN <<>>
    ELSE IF Head(mask) THEN <<Head(a)>> \o Masked(Tail(a), Tail(mask))
         ELSE Masked(Tail(a), Tail(mask))

\* The threshold applied to the ratio instead of the numerator.
RatioDistributionRatioUnits(n0, d0, t) ==
    LET mask1 == [k \in 1..Len(d0) |-> d0[k] > Eps]
        n1 == Masked(n0, mask1)
        d1 == Masked(d0, mask1)
        mask2 == [k \in 1..Len(n1) |-> (100 * n1[k] < t * d1[k]) /\ (100 * n1[k] > -t * d1[k])]
        n2 == Masked(n1, mask2)
        d2 == Masked(d1, mask2)
    IN  [k \in 1..Len(n2) |-> Ratio(n2[k], d2[k])]

\* The denominator mask on the absolute value.
RatioDistributionAbs(n0, d0, t) ==
    LET mask1 == [k \in 1..Len(d0) |-> Abs(d0[k]) > Eps]
        n1 == Masked(n0, mask1)
        d1 == Masked(d0, mask1)
        mask2 == [k \in 1..Len(n1) |-> (n1[k] < t) /\ (n1[k] > -t)]
        n2 == Masked(n1, mask2)
        d2 == Masked(d1, mask2)
    IN  [k \in 1..Len(n2) |-> Ratio(n2[k], d2[k])]

RatioDistribution(n0, d0, t) ==
    LET mask1 == [k \in 1..Len(d0) |-> d0[k] > Eps]
        n1 == Masked(n0, mask1)
        d1 == Masked(d0, mask1)
        mask2 == [k \in 1..Len(n1) |-> (n1[k] < t) /\ (n1[k] > -t)]
        n2 == Masked(n1, mask2)
        d2 == Masked(d1, mask2)
    IN  [k \in 1..Len(n2) |-> Ratio(n2[k], d2[k])]

InitRatioVars ==
    /\ \E pairs \in SeqsOf(RatioValues, 0, MaxLen) :
          /\ num = [k \in 1..Len(pairs) |-> pairs[k].num]
          /\ denom = [k \in 1..Len(pairs) |-> pairs[k].denom]
    /\ threshold \in Thresholds
    /\ ratioOut = Pending
IdleRatioVars == num = <<>> /\ denom = <<>> /\ threshold = 0 /\ ratioOut = Pending

CallRatioDistribution ==
    /\ ratioOut = Pending
    /\ ratioOut' = [status |-> "ok", data |-> RatioDistribution(num, denom, threshold)]
    /\ UNCHANGED <<num, denom, threshold>>

-----------------------------------------------------------------------------
(* Initialize (app.py 59-79), called by concurrent threads. The call of    *)
(* ConsolidateChains is taken to return.                                   *)

Threads == 1..NumThreads

\* _STATE_LOCK is free.
Free == 0

\* State(transactions, positions, chains, chains_map) of the given build.
BuiltState(b) ==
    [transactions |-> "transactions", positions |-> "positions",
     chains |-> "chains", chains_map |-> "chains_map", build |-> b]

InitInitializeVars ==
    /\ G_STATE = None
    /\ lock = Free
    /\ pc = [t \in Threads |-> "idle"]
    /\ ret = [t \in Threads |-> <<>>]
    /\ calls = [t \in Threads |-> 0]
    /\ builds = 0
    /\ late = [t \in Threads |-> FALSE]
    /\ acquired = [t \in Threads |-> FALSE]
IdleInitializeVars ==
    /\ G_STATE = None
    /\ lock = Free
    /\ pc = <<>>
    /\ ret = <<>>
    /\ calls = <<>>
    /\ builds = 0
    /\ late = <<>>
    /\ acquired = <<>>

\* A double-checked entry: a caller that sees STATE set skips the lock.
CallDoubleChecked(t) ==
    /\ pc[t] = "idle"
    /\ calls[t] < MaxCalls
    /\ calls' = [calls EXCEPT ![t] = @ + 1]
    /\ late' = [late EXCEPT ![t] = (G_STATE # None)]
    /\ acquired' = [acquired EXCEPT ![t] = FALSE]
    /\ pc' = [pc EXCEPT ![t] = IF G_STATE # None THEN "return" ELSE "acquire"]
    /\ UNCHANGED <<G_STATE, lock, ret, builds, varsAnalytics>>

\* Lines 60-67: the call starts; it reads the environment only.
Call(t) ==
    /\ pc[t] = "idle"
    /\ calls[t] < MaxCalls
    /\ calls' = [calls EXCEPT ![t] = @ + 1]
    /\ late' = [late EXCEPT ![t] = (G_STATE # None)]
    /\ acquired' = [acquired EXCEPT ![t] = FALSE]
    /\ pc' = [pc EXCEPT ![t] = "acquire"]
    /\ UNCHANGED <<G_STATE, lock, ret, builds, varsAnalytics>>

\* An entry of the with block that does not wait for the lock.
AcquireUnguarded(t) ==
    /\ pc[t] = "acquire"
    /\ lock' = t
    /\ acquired' = [acquired EXCEPT ![t] = TRUE]
    /\ pc' = [pc EXCEPT ![t] = "check"]
    /\ UNCHANGED <<G_STATE, ret, calls, builds, late, varsAnalytics>>

\* Line 68: with _STATE_LOCK, entered when the lock is free.
Acquire(t) ==
    /\ pc[t] = "acquire"
    /\ lock = Free
    /\ lock' = t
    /\ acquired' = [acquired EXCEPT ![t] = TRUE]
    /\ pc' = [pc EXCEPT ![t] = "check"]
    /\ UNCHANGED <<G_STATE, ret, calls, builds, late, varsAnalytics>>

\* Line 69: if STATE is None.
Check(t) ==
    /\ pc[t] = "check"
    /\ pc' = [pc EXCEPT ![t] = IF G_STATE = None THEN "build" ELSE "release"]
    /\ UNCHANGED <<G_STATE, lock, ret, calls, builds, late, acquired, varsAnalytics>>

\* Lines 70-73: ConsolidateChains and chains_map.
Build(t) ==
    /\ pc[t] = "build"
    /\ builds' = builds + 1
    /\ pc' = [pc EXCEPT ![t] = "assign"]
    /\ UNCHANGED <<G_STATE, lock, ret, calls, late, acquired, varsAnalytics>>

\* Line 74: STATE = State(...).
Assign(t) ==
    /\ pc[t] = "assign"
    /\ G_STATE' = Some(BuiltState(builds))
    /\ pc' = [pc EXCEPT ![t] = "release"]
    /\ UNCHANGED <<lock, ret, calls, builds, late, acquired, varsAnalytics>>

\* The end of the with block.
Release(t) ==
    /\ pc[t] = "release"
    /\ lock' = Free
    /\ pc' = [pc EXCEPT ![t] = "return"]
    /\ UNCHANGED <<G_STATE, ret, calls, builds, late, acquired, varsAnalytics>>

\* Line 76: return STATE, read after the lock is released.
Return(t) ==
    /\ pc[t] = "return"
    /\ ret' = [ret EXCEPT ![t] = Append(@, G_STATE)]
    /\ pc' = [pc EXCEPT ![t] = "idle"]
    /\ UNCHANGED <<G_STATE, lock, calls, builds, late, acquired, varsAnalytics>>

-----------------------------------------------------------------------------
(* Specifications.                                                         *)

InitNotional ==
    /\ InitNotionalVars
    /\ IdleRiskVars
    /\ IdleStatsVars
    /\ IdleHistoryVars
    /\ IdleSVGVars
    /\ IdleRatioVars
    /\ IdleInitializeVars

NextNotional == CallGetNotional /\ UNCHANGED <<varsRisk, varsStats, varsHistory, varsSVG, varsRatio, varsInitialize>>

SpecNotional == InitNotional /\ [][NextNotional]_vars

InitRisk ==
    /\ IdleNotionalVars
    /\ InitRiskVars
    /\ IdleStatsVars
    /\ IdleHistoryVars
    /\ IdleSVGVars
    /\ IdleRatioVars
    /\ IdleInitializeVars

NextRisk == risk /\ UNCHANGED <<varsNotional, varsStats, varsHistory, varsSVG, varsRatio, varsInitialize>>

SpecRisk == InitRisk /\ [][NextRisk]_vars

InitStats ==
    /\ IdleNotionalVars
    /\ IdleRiskVars
    /\ InitStatsVars
    /\ IdleHistoryVars
    /\ IdleSVGVars
    /\ IdleRatioVars
    /\ IdleInitializeVars

NextStats == stats /\ UNCHANGED <<varsNotional, varsRisk, varsHistory, varsSVG, varsRatio, varsInitialize>>

SpecStats == InitStats /\ [][NextStats]_vars

InitHistory ==
    /\ IdleNotionalVars
    /\ IdleRiskVars
    /\ IdleStatsVars
    /\ InitHistoryVars
    /\ IdleSVGVars
    /\ IdleRatioVars
    /\ IdleInitializeVars

NextHistory == RenderHistoryText /\ UNCHANGED <<varsNotional, varsRisk, varsStats, varsSVG, varsRatio, varsInitialize>>

SpecHistory == InitHistory /\ [][NextHistory]_vars

InitSVG ==
    /\ IdleNotionalVars
    /\ IdleRiskVars
    /\ IdleStatsVars
    /\ IdleHistoryVars
    /\ InitSVGVars
    /\ IdleRatioVars
    /\ IdleInitializeVars

NextSVG == RenderHistorySVG /\ UNCHANGED <<varsNotional, varsRisk, varsStats, varsHistory, varsRatio, varsInitialize>>

SpecSVG == InitSVG /\ [][NextSVG]_vars

InitRatio ==
    /\ IdleNotionalVars
    /\ IdleRiskVars
    /\ IdleStatsVars
    /\ IdleHistoryVars
    /\ IdleSVGVars
    /\ InitRatioVars
    /\ IdleInitializeVars

NextRatio == CallRatioDistribution /\ UNCHANGED <<varsNotional, varsRisk, varsStats, varsHistory, varsSVG, varsInitialize>>

SpecRatio == InitRatio /\ [][NextRatio]_vars

InitInitialize ==
    /\ IdleNotionalVars
    /\ IdleRiskVars
    /\ IdleStatsVars
    /\ IdleHistoryVars
    /\ IdleSVGVars
    /\ IdleRatioVars
    /\ InitInitializeVars

NextInitialize ==
    \/ \E t \in Threads : Call(t)
    \/ \E t \in Threads : Acquire(t)
    \/ \E t \in Threads : Check(t)
    \/ \E t \in Threads : Build(t)
    \/ \E t \in Threads : Assign(t)
    \/ \E t \in Threads : Release(t)
    \/ \E t \in Threads : Return(t)

SpecInitialize == InitInitialize /\ [][NextInitialize]_vars

-----------------------------------------------------------------------------
(* Properties of GetNotional and risk().                                   *)

\* c (cents) is v (thousandths) rounded to two places, ties to the even cent.
IsHalfEvenCents(c, v) ==
    /\ Abs(10 * c - v) <= 5
    /\ Abs(10 * c - v) = 5 => c % 2 = 0

\* quantity*multiplier*price or quantity*multiplier*strike, in thousandths.
Exact(r) ==
    IF r.instype \in LinearTypes THEN r.quantity * r.multiplier * r.price
    ELSE IF Head(r.putcall) = "P" THEN r.quantity * r.multiplier * Val(r.strike)
    ELSE 0

\* C1: for a row of one of the four valid types GetNotional returns
\* quantity*multiplier*price (Equity, Future), quantity*multiplier*strike (a
\* put option) or 0 (a call option), rounded half-even to two places.
C1_NotionalAgrees ==
    (notional # Pending /\ rec.instype \in ValidTypes) =>
        /\ notional.status = "ok"
        /\ IsHalfEvenCents(notional.value, Exact(rec))

\* A put whose exact notional is a negative tie between two cents.
C1_Witness ==
    /\ notional # Pending
    /\ rec.instype = "FutureOption"
    /\ rec.putcall = PUT
    /\ Exact(rec) < 0
    /\ Exact(rec) % 10 = 5
    /\ notional.status = "ok"

BadRows(table) == {k \in 1..Len(table) : table[k].instype \notin ValidTypes}

\* C2: when a row of the position table has an instype outside the four valid
\* types, risk() ends in the error that carries the (first) offending type
\* and produces no risk table, no notional and no leverage.
C2_InvalidTypeAborts ==
    (riskOut # Pending /\ BadRows(positions) # {}) =>
        /\ riskOut.status = "ValueError"
        /\ \E k \in BadRows(positions) :
              /\ \A j \in BadRows(positions) : k <= j
              /\ riskOut.instype = positions[k].instype
        /\ DOMAIN riskOut = {"status", "instype"}

\* The offending row comes after a valid one.
C2_Witness ==
    /\ riskOut # Pending
    /\ Len(positions) = 2
    /\ positions[1].instype \in ValidTypes
    /\ positions[2].instype = "Bond"
    /\ riskOut.status = "ValueError"

-----------------------------------------------------------------------------
(* Properties of stats().                                                  *)

\* C3: on an empty (filtered) chain table stats() returns its summary table
\* with every statistic zero, and raises no fault.
C3_EmptyChainsNoFault ==
    (statsOut # Pending /\ FilterChains(chains, chain_ids) = <<>>) =>
        /\ statsOut.status = "ok"
        /\ \A f \in DOMAIN statsOut \ {"status"} : statsOut[f] = 0

-----------------------------------------------------------------------------
(* Properties of RenderHistoryText.                                        *)

\* The sum of cost over the rows of the table whose index is in I.
RECURSIVE CostOver(_, _)
CostOver(rows, I) ==
    IF I = {} THEN 0
    ELSE LET k == CHOOSE i \in I : TRUE
         IN  rows[k].cost + CostOver(rows, I \ {k})

\* C4: the groups are the (datetime, order_id) keys of the table in
\* ascending order, each with its summed cost; the first accr is the first
\* group's cost, every later accr is the preceding accr plus the group's
\* cost, and the last accr is the sum of cost over all rows.
C4_AccrualFold ==
    (historyOut # Pending /\ historyOut.status = "ok") =>
        LET R == historyOut.rendered_rows
            n == Len(R)
        IN  /\ {KeyOf(R[g]) : g \in 1..n} = {KeyOf(txns[k]) : k \in 1..Len(txns)}
            /\ \A g \in 1..n :
                  R[g].cost = CostOver(txns, {k \in 1..Len(txns) : KeyOf(txns[k]) = KeyOf(R[g])})
            /\ \A g \in 2..n :
                  /\ KeyLeq(KeyOf(R[g - 1]), KeyOf(R[g]))
                  /\ KeyOf(R[g - 1]) # KeyOf(R[g])
                  /\ R[g].accr = R[g - 1].accr + R[g].cost
            /\ n > 0 => R[1].accr = R[1].cost
            /\ n > 0 => R[n].accr = CostOver(txns, 1..Len(txns))
            /\ txns # <<>> => n > 0

\* Three groups out of key order in the table, the first one with a cost.
C4_Witness ==
    /\ historyOut # Pending
    /\ historyOut.status = "ok"
    /\ Len(txns) = 3
    /\ Len(historyOut.rendered_rows) = 3
    /\ KeyOf(txns[1]) = <<2, 1>>
    /\ KeyOf(txns[3]) = <<1, 2>>
    /\ historyOut.rendered_rows[1].cost = 3
    /\ historyOut.rendered_rows[3].accr = 1

-----------------------------------------------------------------------------
(* Properties of RenderHistorySVG.                                         *)

NonNullStrikes(table) ==
    {Val(table[k].strike) : k \in {j \in 1..Len(table) : table[j].strike # None}}

\* The x coordinate the claims give for a strike of the table.
ClaimedX(strike, table) ==
    LET S == NonNullStrikes(table)
        lo == SetMin(S)
        range == IF SetMax(S) = lo THEN 1 ELSE SetMax(S) - lo
    IN  ((strike - lo) * 1000) \div range

\* C7: with a non-empty set of non-null strikes RenderHistorySVG completes
\* with one tick per distinct strike and one label per row of the table,
\* each at its computed x; with an empty set it returns "No transactions.".
C7_TicksAndLabels ==
    svgOut # Pending =>
        IF NonNullStrikes(svgTxns) = {}
        THEN svgOut.status = "ok" /\ svgOut.text = "No transactions."
        ELSE /\ svgOut.status = "ok"
             /\ Len(svgOut.ticks) = Cardinality(NonNullStrikes(svgTxns))
             /\ {svgOut.ticks[k].strike : k \in 1..Len(svgOut.ticks)} = NonNullStrikes(svgTxns)
             /\ \A k \in 1..Len(svgOut.ticks) :
                   svgOut.ticks[k].x = ClaimedX(svgOut.ticks[k].strike, svgTxns)
             /\ Len(svgOut.labels) = Len(svgTxns)
             /\ \A k \in 1..Len(svgTxns) :
                   Cardinality({i \in 1..Len(svgOut.labels) :
                                   svgOut.labels[i].description = k}) = 1

\* The datetime of the row a label describes.
LabelTime(label) == svgTxns[label.description].datetime

\* C8: the label of the i-th row of the iteration (from 0) is at
\* y = 20 + 12*i + 30*c, c the number of datetime changes up to row i; the
\* rows come in datetime order, so y increases strictly along the labels,
\* and with a single datetime no 30 px step is applied.
C8_LabelY ==
    (svgOut # Pending /\ "labels" \in DOMAIN svgOut) =>
        LET L == svgOut.labels
        IN  /\ \A i \in 1..Len(L) :
                  L[i].y = 20 + 12 * (i - 1)
                           + 30 * Cardinality({j \in 2..i : LabelTime(L[j]) # LabelTime(L[j - 1])})
            /\ \A i \in 2..Len(L) :
                  /\ LabelTime(L[i - 1]) <= LabelTime(L[i])
                  /\ L[i - 1].y < L[i].y
            /\ (\A i \in 1..Len(L) : LabelTime(L[i]) = LabelTime(L[1])) =>
                  \A i \in 1..Len(L) : L[i].y = 20 + 12 * (i - 1)

\* Three labels, two on the first datetime, one on the second.
C8_Witness ==
    /\ svgOut # Pending
    /\ svgOut.status = "ok"
    /\ "labels" \in DOMAIN svgOut
    /\ Len(svgOut.labels) = 3
    /\ svgOut.labels[2].y = 32
    /\ svgOut.labels[3].y = 74

-----------------------------------------------------------------------------
(* Properties of RatioDistribution.                                        *)

\* out lists, in input order, exactly the ratios num[i]/denom[i]*100 of the
\* indices in Kept.
IsRatiosOf(out, Kept) ==
    /\ Len(out) = Cardinality(Kept)
    /\ \E f \in [1..Len(out) -> Kept] :
          /\ \A i, j \in 1..Len(out) : i < j => f[i] < f[j]
          /\ \A j \in 1..Len(out) : out[j].n * denom[f[j]] = 100 * num[f[j]] * out[j].d

\* C5 as stated: the pairs kept are those with |denom[i]| not below epsilon
\* and num[i] strictly inside (-t, t).
C5_KeptByAbsDenom ==
    ratioOut # Pending =>
        IsRatiosOf(ratioOut.data,
                   {i \in 1..Len(num) : ~(Abs(denom[i]) < Eps)
                                        /\ -threshold < num[i] /\ num[i] < threshold})

\* C5, amended: the pairs kept are those with denom[i] strictly above
\* epsilon (a negative denominator, or one equal to epsilon, drops the pair)
\* and num[i] strictly inside (-t, t); the result lists their ratios in
\* input order, and is empty when no denominator is above epsilon.
C5_KeptByDenomAboveEps ==
    ratioOut # Pending =>
        /\ IsRatiosOf(ratioOut.data,
                      {i \in 1..Len(num) : denom[i] > Eps
                                           /\ -threshold < num[i] /\ num[i] < threshold})
        /\ (\A i \in 1..Len(denom) : denom[i] < Eps) => ratioOut.data = <<>>

\* A negative denominator and one equal to epsilon are dropped, a pair survives.
C5_Witness ==
    /\ ratioOut # Pending
    /\ Len(num) = 3
    /\ denom = <<-2, 1, 2>>
    /\ num = <<2, 0, -2>>
    /\ threshold = 3
    /\ ratioOut.data = <<[n |-> -100, d |-> 1]>>

\* The two filter passes in the other order: numerator threshold first,
\* denominator epsilon second.
ReversedOrder(n0, d0, t) ==
    LET mask1 == [k \in 1..Len(n0) |-> (n0[k] < t) /\ (n0[k] > -t)]
        n1 == Masked(n0, mask1)
        d1 == Masked(d0, mask1)
        mask2 == [k \in 1..Len(d1) |-> d1[k] > Eps]
        n2 == Masked(n1, mask2)
        d2 == Masked(d1, mask2)
    IN  [k \in 1..Len(n2) |-> Ratio(n2[k], d2[k])]

\* C9 as stated: some input (num, denom, threshold) has different survivors
\* under the two orders of the filter passes. The inputs are those of the
\* model, the threshold of the current call among them.
C9_OrderSignificant ==
    \E pairs \in SeqsOf(RatioValues, 0, MaxLen), t \in Thresholds \cup {threshold} :
        LET n0 == [k \in 1..Len(pairs) |-> pairs[k].num]
            d0 == [k \in 1..Len(pairs) |-> pairs[k].denom]
        IN  ReversedOrder(n0, d0, t) # RatioDistribution(n0, d0, t)

\* C9, amended: the order of the two filter passes is not significant; on
\* every input, also with values at the filter boundaries, the numerator
\* threshold first and the denominator epsilon second leave the pairs that
\* RatioDistribution leaves.
C9_OrderInsignificant ==
    ratioOut # Pending => ratioOut.data = ReversedOrder(num, denom, threshold)

\* Values at both boundaries: a denominator equal to epsilon, a numerator
\* equal to the threshold, and a pair that survives.
C9_Witness ==
    /\ ratioOut # Pending
    /\ Len(num) = 3
    /\ denom = <<1, 2, 2>>
    /\ num = <<0, 2, -2>>
    /\ threshold = 2
    /\ ratioOut.data = <<>>

-----------------------------------------------------------------------------
(* Properties of Initialize.                                               *)

InBuild(t) == pc[t] \in {"build", "assign"}

C6_Inv ==
    /\ builds <= 1
    /\ \A t, u \in Threads : InBuild(t) /\ InBuild(u) => t = u
    /\ G_STATE # None => G_STATE = Some(BuiltState(1)) /\ builds = 1
    /\ \A t \in Threads : \A i \in 1..Len(ret[t]) :
          ret[t][i] # None /\ ret[t][i] = G_STATE

C10_LateCallerSkipsLock ==
    \A t \in Threads :
        (late[t] /\ pc[t] # "idle") => (lock # t /\ pc[t] # "acquire")

\* C10, amended: the check is made once, under the lock. Every call of
\* Initialize acquires _STATE_LOCK before it reads STATE, also a call made
\* after STATE was set (which may wait for the lock); only a caller that
\* finds STATE unset under the lock builds; a call made after STATE was set
\* does not build and returns the built snapshot.
C10_CheckedUnderLock ==
    \A t \in Threads :
        /\ pc[t] \in {"check", "build", "assign", "release"} => lock = t /\ acquired[t]
        /\ pc[t] = "return" => acquired[t]
        /\ InBuild(t) => G_STATE = None /\ ~late[t]
        /\ (late[t] /\ pc[t] # "idle") => G_STATE # None
        /\ (late[t] /\ pc[t] = "idle") => ret[t][Len(ret[t])] = G_STATE /\ G_STATE # None

\* A call made after STATE was set waits for the lock another late call holds.
C10_Witness ==
    \E t, u \in Threads :
        /\ late[t] /\ pc[t] = "acquire"
        /\ late[u] /\ lock = u /\ pc[u] = "check"
        /\ G_STATE # None

====
